---- MODULE Spec2Model ----
(***************************************************************************)
(* Progressive loading and clustering of the parcel map.                   *)
(*                                                                         *)
(* The model follows src/components/MapView.tsx (the clustered view) and   *)
(* the keyset-paginated endpoint src/app/api/geojson/route.ts.             *)
(*                                                                         *)
(* Four specifications share the variables and Init: Spec is the           *)
(* clustered view over the endpoint's pages, LiveSpec the same view with   *)
(* no fetch error and no teardown under fair scheduling of the load loop,  *)
(* ServerSpec the endpoint's handler (limit, pool client, cursor) with a   *)
(* reader that follows nextCursor, RawSpec the raw-vector view of          *)
(* src/unnamed/part_000 with its queue of batches.                         *)
(*                                                                         *)
(* Scaling.  The world is one-dimensional with 2^CLUSTER_MAX_ZOOM          *)
(* positions; a geometry is the set of positions it covers.  The spatial   *)
(* index of the supercluster package is modelled as the grid hierarchy it  *)
(* approximates: at zoom z the points of one cell of width                 *)
(* 2^(CLUSTER_MAX_ZOOM - z) are merged.  The viewport at zoom z spans two  *)
(* cells of zoom z.  The numeric constants of the source are scaled down   *)
(* (FETCH_LIMIT and DEFAULT_LIMIT 5000 -> 2, MAX_LIMIT 20000 -> 4,         *)
(* CLUSTER_MAX_ZOOM 18 -> 2, INITIAL_ZOOM 5 -> 1).                         *)
(***************************************************************************)
EXTENDS Integers, Sequences, FiniteSets, TLC

\* ------------------------------------------------------------------ bounds
\* Largest number of rows of dw.dm_sicar; the table size is chosen in Init.
MaxRecords == 3

\* ------------------------------------------------------- program constants
FETCH_LIMIT == 2
CLUSTER_MAX_ZOOM == 2
INITIAL_ZOOM == 1
INITIAL_VIEW == 1
\* route.ts: the page size of a request without a usable limit, and the
\* largest page size (5000 -> 2 and 20000 -> 4).
DEFAULT_LIMIT == 2
MAX_LIMIT == 4
\* supercluster packs a cluster id as (index << 5) + (zoom + 1) + #points
IdShift == 32

\* ------------------------------------------------------------ small helpers
Min(a, b) == IF a < b THEN a ELSE b
Max(a, b) == IF a > b THEN a ELSE b

RECURSIVE Pow2(_)
Pow2(n) == IF n = 0 THEN 1 ELSE 2 * Pow2(n - 1)

SetMin(S) == CHOOSE x \in S : \A y \in S : x <= y
SetMax(S) == CHOOSE x \in S : \A y \in S : x >= y

Positions == 0 .. (Pow2(CLUSTER_MAX_ZOOM) - 1)

\* ----------------------------------------------------- endpoint (route.ts)
\* Decimal digits of a non-negative integer: String(value).
RECURSIVE Digits(_)
Digits(n) == IF n < 10 THEN <<n>> ELSE Append(Digits(n \div 10), n % 10)

\* Number(<decimal string>).
RECURSIVE FromDigits(_)
FromDigits(d) ==
    IF Len(d) = 0 THEN 0
    ELSE 10 * FromDigits(SubSeq(d, 1, Len(d) - 1)) + d[Len(d)]

\* The cursor token: base64url over the decimal string of the id.  base64url
\* is a bijection on byte strings, so the token is modelled by the string it
\* wraps; the empty sequence stands for "no cursor".
encodeCursor(value) == Digits(value)
decodeCursor(value) == FromDigits(value)

\* The geometry column of row id: the set of positions the shape covers.
\* Rows 1, 5, 9, ... have an empty geometry and rows 4, 8, ... a null one;
\* rows 2, 10, ... are a point at the west end, rows 3, 7, ... a shape in the
\* east half and rows 6, 14, ... a shape spanning the world.  With
\* FETCH_LIMIT = 2 a table of one row is a page without any usable
\* geometry, the first page of a longer table mixes a usable and an
\* unusable geometry.
Geojson(id) ==
    IF id % 4 = 0 THEN [present |-> FALSE, coords |-> {}]
    ELSE IF id % 4 = 1 THEN [present |-> TRUE, coords |-> {}]
    ELSE IF id % 4 = 3
         THEN [present |-> TRUE,
               coords |-> {Pow2(CLUSTER_MAX_ZOOM) - 2, Pow2(CLUSTER_MAX_ZOOM) - 1}]
    ELSE IF id % 8 = 2 THEN [present |-> TRUE, coords |-> {0}]
    ELSE [present |-> TRUE, coords |-> {0, Pow2(CLUSTER_MAX_ZOOM) - 1}]

buildFeature(id) == [id |-> id, geometry |-> Geojson(id)]

\* Variant of runQuery with WHERE id >= $1.
runQueryInclusive(n, limit, hasCursor, cursorValue) ==
    LET from == IF hasCursor THEN Max(cursorValue, 1) ELSE 1
        upto == Min(n, from + limit - 1)
    IN  [k \in 1 .. Max(upto - from + 1, 0) |-> from + k - 1]

\* SELECT ... WHERE id > cursorValue ORDER BY id LIMIT limit, over a table
\* holding the ids 1 .. n.  hasCursor = FALSE is the query without WHERE.
runQuery(n, limit, hasCursor, cursorValue) ==
    LET from == IF hasCursor THEN Max(cursorValue, 0) + 1 ELSE 1
        upto == Min(n, from + limit - 1)
    IN  [k \in 1 .. Max(upto - from + 1, 0) |-> from + k - 1]

\* The JSON body of a successful GET for an already clamped limit.
GET(n, limit, cursorParam) ==
    LET hasCursor == Len(cursorParam) > 0
        rows == runQuery(n, limit, hasCursor,
                         IF hasCursor THEN decodeCursor(cursorParam) ELSE 0)
    IN  [features   |-> [k \in 1 .. Len(rows) |-> buildFeature(rows[k])],
         nextCursor |-> IF Len(rows) > 0 THEN encodeCursor(rows[Len(rows)])
                        ELSE <<>>]

\* The limit parameter of a request, searchParams.get("limit"): absent
\* (null), a string that is not a number, or the decimal string of an integer.
LimitParams ==
    {[given |-> FALSE, numeric |-> FALSE, value |-> 0],
     [given |-> TRUE, numeric |-> FALSE, value |-> 0]}
    \cup {[given |-> TRUE, numeric |-> TRUE, value |-> v] :
              v \in -1 .. MAX_LIMIT + 1}

\* Number(limitParam): null converts to 0, a non-numeric string to NaN.
NumberOf(limitParam) ==
    IF ~limitParam.given THEN [nan |-> FALSE, val |-> 0]
    ELSE IF ~limitParam.numeric THEN [nan |-> TRUE, val |-> 0]
    ELSE [nan |-> FALSE, val |-> limitParam.value]

\* x || DEFAULT_LIMIT: NaN and 0 are falsy.
OrDefault(x) == IF x.nan \/ x.val = 0 THEN DEFAULT_LIMIT ELSE x.val

\* const limit = Math.min(Math.max(Number(limitParam) || DEFAULT_LIMIT, 1),
\*                         MAX_LIMIT)
ClampLimit(limitParam) ==
    Min(Max(OrDefault(NumberOf(limitParam)), 1), MAX_LIMIT)

\* The handler before its first request.  pc is the handler's position,
\* held says that the handler holds a pool client, cursor is the state of
\* the server-side cursor of the current request, settled the state of
\* runQuery's promise; acquired and released count pool.connect()
\* resolutions and client.release() calls.  cursorParam, received, failed
\* and finished belong to the reader that follows nextCursor.
ServerIdle ==
    [pc          |-> "idle",
     limitParam  |-> [given |-> FALSE, numeric |-> FALSE, value |-> 0],
     limit       |-> 0,
     cursorParam |-> <<>>,
     requests    |-> 0,
     held        |-> FALSE,
     acquired    |-> 0,
     released    |-> 0,
     cursor      |-> "none",
     readErr     |-> FALSE,
     closeErr    |-> FALSE,
     settled     |-> "pending",
     lastPage    |-> <<>>,
     lastCursor  |-> <<>>,
     received    |-> <<>>,
     failed      |-> FALSE,
     finished    |-> FALSE]

\* ------------------------------------------- representative point (client)
\* L.geoJSON(geometry).getBounds(): the envelope of the covered positions;
\* a null geometry and an empty envelope give no point, otherwise the
\* centre of the envelope.
geometryToLatLng(geometry) ==
    IF ~geometry.present THEN [ok |-> FALSE, pos |-> 0]
    ELSE IF geometry.coords = {} THEN [ok |-> FALSE, pos |-> 0]
    ELSE [ok |-> TRUE,
          pos |-> (SetMin(geometry.coords) + SetMax(geometry.coords)) \div 2]

\* An L.LatLngBounds is <<>> (null or not valid) or <<southWest, northEast>>.
BoundsValid(b) == Len(b) = 2
BoundsExtend(b, p) ==
    IF BoundsValid(b) THEN <<Min(b[1], p), Max(b[2], p)>> ELSE <<p, p>>

\* ------------------------------------------------ the spatial cluster index
\* The cell of position p at zoom z.
Cell(p, z) == p \div Pow2(CLUSTER_MAX_ZOOM - z)

\* Indices of the loaded points that fall in cell c at zoom z.
Members(pts, z, c) == {i \in 1 .. Len(pts) : Cell(pts[i].pos, z) = c}

ClusterId(c, z, n) == c * IdShift + (z + 1) + n

RECURSIVE SumPos(_, _)
SumPos(pts, I) ==
    IF I = {} THEN 0
    ELSE LET i == SetMin(I) IN pts[i].pos + SumPos(pts, I \ {i})

\* The entry of the query result for a non-empty cell: a Cluster when the
\* cell holds two points or more, the point itself (a Leaf) otherwise.
ClusterOrPoint(pts, z, c) ==
    LET I == Members(pts, z, c)
    IN  IF Cardinality(I) >= 2
        THEN [cluster |-> TRUE, cluster_id |-> ClusterId(c, z, Len(pts)),
              point_count |-> Cardinality(I), id |-> 0,
              pos |-> SumPos(pts, I) \div Cardinality(I)]
        ELSE [cluster |-> FALSE, cluster_id |-> 0, point_count |-> 1,
              id |-> pts[SetMin(I)].id, pos |-> pts[SetMin(I)].pos]

\* A view is [zoom, center]; at zoom z > 0 the viewport spans the two zoom-z
\* cells of one zoom-(z-1) cell, at zoom 0 the whole world.
WindowLevel(z) == IF z = 0 THEN 0 ELSE z - 1
MakeView(zoom, p) ==
    [zoom |-> zoom,
     center |-> Cell(p, WindowLevel(zoom)) * Pow2(CLUSTER_MAX_ZOOM - WindowLevel(zoom))]
Views == {MakeView(z, p) : z \in 0 .. CLUSTER_MAX_ZOOM, p \in Positions}
VisibleCells(v) ==
    {c \in 0 .. (Pow2(v.zoom) - 1) :
        Cell(c * Pow2(CLUSTER_MAX_ZOOM - v.zoom), WindowLevel(v.zoom))
            = Cell(v.center, WindowLevel(v.zoom))}

RECURSIVE CellsToSeq(_, _, _)
CellsToSeq(pts, z, C) ==
    IF C = {} THEN <<>>
    ELSE LET c == SetMin(C)
         IN  (IF Members(pts, z, c) = {} THEN <<>>
              ELSE <<ClusterOrPoint(pts, z, c)>>)
             \o CellsToSeq(pts, z, C \ {c})

\* supercluster.getClusters(bbox, zoom) over the loaded points pts.
getClusters(pts, v) == CellsToSeq(pts, v.zoom, VisibleCells(v))

\* The clusters a cluster id names in an index holding pts: the id is
\* unpacked with the CURRENT number of loaded points, as supercluster does.
ClusterLookup(pts, clusterId) ==
    LET v == clusterId - Len(pts)
    IN  IF v < 1 THEN {}
        ELSE {zc \in (0 .. CLUSTER_MAX_ZOOM) \X (0 .. (Pow2(CLUSTER_MAX_ZOOM) - 1)) :
                 /\ zc[1] + 1 = v % IdShift
                 /\ zc[2] = v \div IdShift
                 /\ zc[2] < Pow2(zc[1])
                 /\ Cardinality(Members(pts, zc[1], zc[2])) >= 2}

\* First zoom above z at which the members of cluster (z, c) separate.
RECURSIVE ExpansionOf(_, _, _)
ExpansionOf(pts, z, c) ==
    IF z >= CLUSTER_MAX_ZOOM THEN CLUSTER_MAX_ZOOM + 1
    ELSE LET l == Members(pts, z + 1, 2 * c) # {}
             r == Members(pts, z + 1, 2 * c + 1) # {}
         IN  IF l /\ r THEN z + 1
             ELSE IF l THEN ExpansionOf(pts, z + 1, 2 * c)
             ELSE ExpansionOf(pts, z + 1, 2 * c + 1)

\* supercluster.getClusterExpansionZoom(clusterId): found = FALSE is the
\* thrown "No cluster with the specified id."
getClusterExpansionZoom(pts, clusterId) ==
    LET hits == ClusterLookup(pts, clusterId)
    IN  IF hits = {} THEN [found |-> FALSE, zoom |-> 0]
        ELSE LET zc == CHOOSE h \in hits : TRUE
             IN  [found |-> TRUE, zoom |-> ExpansionOf(pts, zc[1], zc[2])]

\* map.fitBounds(bounds): the deepest zoom whose viewport holds the bounds.
FitView(b) ==
    LET fits == {z \in 0 .. CLUSTER_MAX_ZOOM :
                    Cell(b[1], WindowLevel(z)) = Cell(b[2], WindowLevel(z))}
    IN  MakeView(SetMax(fits), b[1])

\* ------------------------------------------------------------------- state
VARIABLES
    numRecords,          \* rows of the table behind the endpoint (1 .. n)
    phase,               \* "initial" (rendered), "mounted", "unmounted"
    mapRef,              \* mapRef.current is the map (TRUE) or null
    whenReadyDone,       \* the map has called whenReady
    clusterLayerRef,     \* clusterLayerRef.current exists
    overlays,            \* layers of the cluster layer group, in draw order
    superclusterRef,     \* index into instances, 0 for null
    instances,           \* points loaded in each Supercluster ever created
    featureMapRef,       \* FeatureTable: pointId -> Feature
    pointsRef,           \* points buffer
    nextFeatureIdRef,
    boundsRef,
    cancelledRef,
    shouldFitBoundsRef,
    mapReady,            \* state: latest value set
    renderedMapReady,    \* mapReady as seen by the committed render
    totalFetched, hasMore, isLoading,
    view,                \* the map's zoom and centre
    moveEndPending,      \* a moveend/zoomend event is due
    subscribed,          \* handleMove is registered on the map
    loops,               \* one record per started load()
    session,             \* number of runs of the load effect
    sessionCalls,        \* fetches issued since the last session start
    sessionFailed,       \* a fetch failed since the last session start
    toasts,              \* error notifications shown since the session start
    fits,                \* fitBounds calls since the session start
    lastQuery,           \* result of the query of the latest render pass
    lastClick,           \* how the latest cluster click ended
    srv,                 \* the endpoint's handler and the reader of its pages
    queueRef,            \* raw-vector view: batches waiting for the layer
    geoJsonLayerRef,     \* raw-vector view: geoJsonLayerRef.current exists
    layerData,           \* raw-vector view: batches added to the layer
    flushed              \* raw-vector view: batches applyQueue has moved

vars == <<numRecords, phase, mapRef, whenReadyDone, clusterLayerRef, overlays,
          superclusterRef, instances, featureMapRef, pointsRef, nextFeatureIdRef,
          boundsRef, cancelledRef, shouldFitBoundsRef, mapReady, renderedMapReady,
          totalFetched, hasMore, isLoading, view, moveEndPending, subscribed,
          loops, session, sessionCalls, sessionFailed, toasts, fits, lastQuery,
          lastClick, srv, queueRef, geoJsonLayerRef, layerData, flushed>>

\* The state of the endpoint and of the raw-vector view, which the clustered
\* view does not touch.
otherVars == <<srv, queueRef, geoJsonLayerRef, layerData, flushed>>

\* The state of the clustered view, which the endpoint does not touch.
viewVars == <<phase, mapRef, whenReadyDone, clusterLayerRef, overlays,
              superclusterRef, instances, featureMapRef, pointsRef,
              nextFeatureIdRef, boundsRef, cancelledRef, shouldFitBoundsRef,
              mapReady, renderedMapReady, totalFetched, hasMore, isLoading, view,
              moveEndPending, subscribed, loops, session, sessionCalls,
              sessionFailed, toasts, fits, lastQuery, lastClick>>

\* The state of the raw-vector view alone.
rawVars == <<queueRef, geoJsonLayerRef, layerData, flushed>>

\* The part of the state the component's callbacks read and write, as one
\* record, so that a callback is a function from record to record.
Cur ==
    [phase |-> phase, mapRef |-> mapRef, clusterLayerRef |-> clusterLayerRef,
     overlays |-> overlays, superclusterRef |-> superclusterRef,
     instances |-> instances, featureMapRef |-> featureMapRef,
     pointsRef |-> pointsRef, nextFeatureIdRef |-> nextFeatureIdRef,
     boundsRef |-> boundsRef, cancelledRef |-> cancelledRef,
     shouldFitBoundsRef |-> shouldFitBoundsRef, mapReady |-> mapReady,
     totalFetched |-> totalFetched, hasMore |-> hasMore, isLoading |-> isLoading,
     view |-> view, moveEndPending |-> moveEndPending,
     session |-> session, sessionCalls |-> sessionCalls,
     sessionFailed |-> sessionFailed, toasts |-> toasts, fits |-> fits,
     lastQuery |-> lastQuery, lastClick |-> lastClick]

Install(s) ==
    /\ phase' = s.phase
    /\ mapRef' = s.mapRef
    /\ clusterLayerRef' = s.clusterLayerRef
    /\ overlays' = s.overlays
    /\ superclusterRef' = s.superclusterRef
    /\ instances' = s.instances
    /\ featureMapRef' = s.featureMapRef
    /\ pointsRef' = s.pointsRef
    /\ nextFeatureIdRef' = s.nextFeatureIdRef
    /\ boundsRef' = s.boundsRef
    /\ cancelledRef' = s.cancelledRef
    /\ shouldFitBoundsRef' = s.shouldFitBoundsRef
    /\ mapReady' = s.mapReady
    /\ totalFetched' = s.totalFetched
    /\ hasMore' = s.hasMore
    /\ isLoading' = s.isLoading
    /\ view' = s.view
    /\ moveEndPending' = s.moveEndPending
    /\ session' = s.session
    /\ sessionCalls' = s.sessionCalls
    /\ sessionFailed' = s.sessionFailed
    /\ toasts' = s.toasts
    /\ fits' = s.fits
    /\ lastQuery' = s.lastQuery
    /\ lastClick' = s.lastClick

\* A state setter of a component that is no longer mounted does nothing.
setMapReady(s, v) == IF s.phase = "unmounted" THEN s ELSE [s EXCEPT !.mapReady = v]
setTotalFetched(s, v) == IF s.phase = "unmounted" THEN s ELSE [s EXCEPT !.totalFetched = v]
setHasMore(s, v) == IF s.phase = "unmounted" THEN s ELSE [s EXCEPT !.hasMore = v]
setIsLoading(s, v) == IF s.phase = "unmounted" THEN s ELSE [s EXCEPT !.isLoading = v]

MapSet(m, k, v) == [x \in (DOMAIN m) \cup {k} |-> IF x = k THEN v ELSE m[x]]

\* ----------------------------------------------------------------- renderer
ensureClusterLayer(s) ==
    IF ~s.mapRef THEN s ELSE [s EXCEPT !.clusterLayerRef = TRUE]

getSupercluster(s) ==
    IF s.superclusterRef = 0
    THEN [s EXCEPT !.instances = Append(s.instances, s.pointsRef),
                   !.superclusterRef = Len(s.instances) + 1]
    ELSE s

\* Variant of clearLayers that leaves the drawn layers in place.
clearLayersKeep(s) == s

\* clusterLayer.clearLayers()
clearLayers(s) == [s EXCEPT !.overlays = <<>>]

\* The overlay drawn for one entry of the query result: a marker for a
\* Cluster (its click handler keeps the cluster id and the index instance),
\* the feature's own geometry for a Leaf; nothing for a Leaf whose id is
\* falsy or is not a key of the feature table.
LayerFor(s, c) ==
    IF c.cluster
    THEN <<[cluster |-> TRUE, cluster_id |-> c.cluster_id, inst |-> s.superclusterRef,
            pos |-> c.pos, id |-> 0, count |-> c.point_count]>>
    ELSE IF c.id = 0 THEN <<>>
    ELSE IF c.id \notin DOMAIN s.featureMapRef THEN <<>>
    ELSE <<[cluster |-> FALSE, cluster_id |-> 0, inst |-> 0,
            pos |-> c.pos, id |-> c.id, count |-> 1]>>

RECURSIVE AddLayers(_, _, _)
AddLayers(s, clusters, k) ==
    IF k > Len(clusters) THEN s
    ELSE AddLayers([s EXCEPT !.overlays = s.overlays \o LayerFor(s, clusters[k])],
                   clusters, k + 1)

\* Variant of FitBoundsOnce that does not clear the fit-once flag.
FitBoundsAlways(s) ==
    IF s.shouldFitBoundsRef /\ BoundsValid(s.boundsRef)
    THEN [s EXCEPT !.view = FitView(s.boundsRef),
                   !.moveEndPending = (s.moveEndPending \/ FitView(s.boundsRef) # s.view),
                   !.fits = s.fits + 1]
    ELSE s

\* The auto-fit at the end of renderClusters.
FitBoundsOnce(s) ==
    IF s.shouldFitBoundsRef /\ BoundsValid(s.boundsRef)
    THEN [s EXCEPT !.view = FitView(s.boundsRef),
                   !.moveEndPending = (s.moveEndPending \/ FitView(s.boundsRef) # s.view),
                   !.fits = s.fits + 1,
                   !.shouldFitBoundsRef = FALSE]
    ELSE s

renderClusters(s) ==
    LET s1 == getSupercluster(ensureClusterLayer(s))
    IN  IF ~s1.mapRef THEN s1
        ELSE LET s2 == [clearLayers(s1) EXCEPT !.lastQuery = <<>>]
             IN  IF Len(s2.pointsRef) = 0 THEN s2
                 ELSE LET clusters == getClusters(s2.instances[s2.superclusterRef], s2.view)
                      IN  FitBoundsOnce(AddLayers([s2 EXCEPT !.lastQuery = clusters],
                                                  clusters, 1))

\* map.flyTo(latlng, zoom)
flyTo(s, p, zoom) ==
    [s EXCEPT !.view = MakeView(zoom, p),
              !.moveEndPending = (s.moveEndPending \/ MakeView(zoom, p) # s.view)]

\* Variant of ExpandCluster whose catch does not return: the marker is flown
\* to at the current zoom.
ExpandClusterNoReturn(s, o) ==
    IF Len(s.pointsRef) = 0 THEN [s EXCEPT !.lastClick = "empty"]
    ELSE LET e == getClusterExpansionZoom(s.instances[o.inst], o.cluster_id)
         IN  IF ~e.found
             THEN [flyTo(s, o.pos, s.view.zoom) EXCEPT !.lastClick = "failed"]
             ELSE [flyTo(s, o.pos, Min(e.zoom, CLUSTER_MAX_ZOOM))
                      EXCEPT !.lastClick = "moved"]

\* The click handler of the cluster marker o: it returns when the points
\* buffer is empty ("empty") and when the lookup throws ("failed"), and
\* flies to the expansion zoom otherwise ("moved").
ExpandCluster(s, o) ==
    IF Len(s.pointsRef) = 0 THEN [s EXCEPT !.lastClick = "empty"]
    ELSE LET e == getClusterExpansionZoom(s.instances[o.inst], o.cluster_id)
         IN  IF ~e.found THEN [s EXCEPT !.lastClick = "failed"]
             ELSE [flyTo(s, o.pos, Min(e.zoom, CLUSTER_MAX_ZOOM))
                      EXCEPT !.lastClick = "moved"]

\* ------------------------------------------------------------------ indexer
\* The forEach of addCollection: acc is [fm, pts, next, bounds].
\* Variant of IndexFeatures that never advances nextFeatureIdRef.
RECURSIVE IndexFeaturesSameId(_, _, _)
IndexFeaturesSameId(features, k, acc) ==
    IF k > Len(features) THEN acc
    ELSE LET center == geometryToLatLng(features[k].geometry)
         IN  IF ~center.ok THEN IndexFeaturesSameId(features, k + 1, acc)
             ELSE IndexFeaturesSameId(features, k + 1,
                    [fm     |-> MapSet(acc.fm, acc.next, features[k]),
                     pts    |-> Append(acc.pts, [id |-> acc.next, pos |-> center.pos]),
                     next   |-> acc.next,
                     bounds |-> BoundsExtend(acc.bounds, center.pos)])

\* Variant of IndexFeatures that leaves the batch at the first feature
\* without a representative point.
RECURSIVE IndexFeaturesStopAtBad(_, _, _)
IndexFeaturesStopAtBad(features, k, acc) ==
    IF k > Len(features) THEN acc
    ELSE LET center == geometryToLatLng(features[k].geometry)
         IN  IF ~center.ok THEN acc
             ELSE IndexFeaturesStopAtBad(features, k + 1,
                    [fm     |-> MapSet(acc.fm, acc.next, features[k]),
                     pts    |-> Append(acc.pts, [id |-> acc.next, pos |-> center.pos]),
                     next   |-> acc.next + 1,
                     bounds |-> BoundsExtend(acc.bounds, center.pos)])

\* The forEach of addCollection from feature k on: a feature without a
\* representative point is skipped, any other gets the next pointId, an entry
\* of the feature table, a point and a place in the bounds.
RECURSIVE IndexFeatures(_, _, _)
IndexFeatures(features, k, acc) ==
    IF k > Len(features) THEN acc
    ELSE LET center == geometryToLatLng(features[k].geometry)
         IN  IF ~center.ok THEN IndexFeatures(features, k + 1, acc)
             ELSE IndexFeatures(features, k + 1,
                    [fm     |-> MapSet(acc.fm, acc.next, features[k]),
                     pts    |-> Append(acc.pts, [id |-> acc.next, pos |-> center.pos]),
                     next   |-> acc.next + 1,
                     bounds |-> BoundsExtend(acc.bounds, center.pos)])

\* Variant of addCollection that loads only the points of the new batch into
\* the index.
addCollectionLoadNew(s, features, ready) ==
    IF Len(features) = 0 THEN s
    ELSE LET s1 == getSupercluster(s)
             acc == IndexFeatures(features, 1,
                       [fm |-> s1.featureMapRef, pts |-> <<>>,
                        next |-> s1.nextFeatureIdRef,
                        bounds |-> IF BoundsValid(s1.boundsRef) THEN s1.boundsRef ELSE <<>>])
         IN  IF Len(acc.pts) = 0 THEN s1
             ELSE LET s2 == [s1 EXCEPT
                               !.featureMapRef = acc.fm,
                               !.nextFeatureIdRef = acc.next,
                               !.pointsRef = s1.pointsRef \o acc.pts,
                               !.boundsRef = IF BoundsValid(acc.bounds) THEN acc.bounds
                                             ELSE s1.boundsRef,
                               !.instances[s1.superclusterRef] = acc.pts]
                  IN  IF ready THEN renderClusters(s2) ELSE s2

\* addCollection as memoised by a render that saw mapReady = ready.
addCollection(s, features, ready) ==
    IF Len(features) = 0 THEN s
    ELSE LET s1 == getSupercluster(s)
             acc == IndexFeatures(features, 1,
                       [fm |-> s1.featureMapRef, pts |-> <<>>,
                        next |-> s1.nextFeatureIdRef,
                        bounds |-> IF BoundsValid(s1.boundsRef) THEN s1.boundsRef ELSE <<>>])
         IN  IF Len(acc.pts) = 0 THEN s1
             ELSE LET s2 == [s1 EXCEPT
                               !.featureMapRef = acc.fm,
                               !.nextFeatureIdRef = acc.next,
                               !.pointsRef = s1.pointsRef \o acc.pts,
                               !.boundsRef = IF BoundsValid(acc.bounds) THEN acc.bounds
                                             ELSE s1.boundsRef,
                               !.instances[s1.superclusterRef] = s1.pointsRef \o acc.pts]
                  IN  IF ready THEN renderClusters(s2) ELSE s2

\* ------------------------------------------------------------ load effect
\* Variant of ResetRefs that keeps the Supercluster instance.
ResetRefsKeepIndex(s) ==
    [s EXCEPT !.cancelledRef = FALSE,
              !.shouldFitBoundsRef = TRUE,
              !.boundsRef = <<>>,
              !.featureMapRef = <<>>,
              !.pointsRef = <<>>,
              !.nextFeatureIdRef = 1]

\* Variant of ResetRefs that keeps the points buffer.
ResetRefsKeepPoints(s) ==
    [s EXCEPT !.cancelledRef = FALSE,
              !.shouldFitBoundsRef = TRUE,
              !.boundsRef = <<>>,
              !.featureMapRef = <<>>,
              !.superclusterRef = 0,
              !.nextFeatureIdRef = 1]

\* The resets at the top of the load effect.
ResetRefs(s) ==
    [s EXCEPT !.cancelledRef = FALSE,
              !.shouldFitBoundsRef = TRUE,
              !.boundsRef = <<>>,
              !.featureMapRef = <<>>,
              !.pointsRef = <<>>,
              !.superclusterRef = 0,
              !.nextFeatureIdRef = 1]

\* The body of the load effect up to the first await of load(): the resets,
\* setIsLoading(true), the test of the while and the first fetch.
LoadEffect(s) ==
    LET s1 == setHasMore(setTotalFetched(ResetRefs(s), 0), TRUE)
        s2 == [s1 EXCEPT !.session = s.session + 1, !.sessionCalls = 0,
                         !.sessionFailed = FALSE, !.toasts = 0, !.fits = 0]
    IN  [setIsLoading(s2, TRUE) EXCEPT !.sessionCalls = 1]

\* A load() suspended at its first fetch; ready is the mapReady that the
\* addCollection of its closure was memoised with.
NewLoop(ready) ==
    [pc |-> "fetch", cursor |-> <<>>, ready |-> ready, cleaned |-> FALSE, calls |-> 1]

\* The cleanup of the load effect.
Cleanup(s) == [s EXCEPT !.cancelledRef = TRUE]
MarkCleaned(ls) == [l \in DOMAIN ls |-> [ls[l] EXCEPT !.cleaned = TRUE]]

\* Variant of OnFetchError that rolls the loaded data back.
OnFetchErrorRollback(s) ==
    LET s1 == IF s.phase = "mounted" THEN [s EXCEPT !.toasts = s.toasts + 1] ELSE s
        s2 == [s1 EXCEPT !.sessionFailed = TRUE, !.pointsRef = <<>>,
                         !.featureMapRef = <<>>]
    IN  IF ~s2.cancelledRef THEN setIsLoading(s2, FALSE) ELSE s2

\* catch and finally of load() after a failed fetch.
OnFetchError(s) ==
    LET s1 == IF s.phase = "mounted" THEN [s EXCEPT !.toasts = s.toasts + 1] ELSE s
        s2 == [s1 EXCEPT !.sessionFailed = TRUE]
    IN  IF ~s2.cancelledRef THEN setIsLoading(s2, FALSE) ELSE s2

\* Variant of OnLoopExit that never clears isLoading.
OnLoopExitKeepLoading(s) == s

\* finally of load() on a normal exit of the while.
OnLoopExit(s) == IF ~s.cancelledRef THEN setIsLoading(s, FALSE) ELSE s

\* ------------------------------------------------------------------ actions
Init ==
    /\ numRecords \in 0 .. MaxRecords
    /\ phase = "initial"
    /\ mapRef = FALSE
    /\ whenReadyDone = FALSE
    /\ clusterLayerRef = FALSE
    /\ overlays = <<>>
    /\ superclusterRef = 0
    /\ instances = <<>>
    /\ featureMapRef = <<>>
    /\ pointsRef = <<>>
    /\ nextFeatureIdRef = 1
    /\ boundsRef = <<>>
    /\ cancelledRef = FALSE
    /\ shouldFitBoundsRef = TRUE
    /\ mapReady = FALSE
    /\ renderedMapReady = FALSE
    /\ totalFetched = 0
    /\ hasMore = TRUE
    /\ isLoading = FALSE
    /\ view = MakeView(INITIAL_ZOOM, INITIAL_VIEW)
    /\ moveEndPending = FALSE
    /\ subscribed = FALSE
    /\ loops = <<>>
    /\ session = 0
    /\ sessionCalls = 0
    /\ sessionFailed = FALSE
    /\ toasts = 0
    /\ fits = 0
    /\ lastQuery = <<>>
    /\ lastClick = "none"
    /\ srv = ServerIdle
    /\ queueRef = <<>>
    /\ geoJsonLayerRef = FALSE
    /\ layerData = <<>>
    /\ flushed = 0

\* The effects of the first commit: the load effect starts the first load();
\* the two mapReady effects see mapReady = false and do nothing.
Mount ==
    /\ phase = "initial"
    /\ Install(LoadEffect([Cur EXCEPT !.phase = "mounted"]))
    /\ loops' = <<NewLoop(renderedMapReady)>>
    /\ UNCHANGED <<otherVars, numRecords, whenReadyDone, renderedMapReady, subscribed>>

\* whenReady of the MapContainer.
WhenReady ==
    /\ phase # "unmounted"
    /\ ~whenReadyDone
    /\ whenReadyDone' = TRUE
    /\ Install(renderClusters(setMapReady(Cur, TRUE)))
    /\ UNCHANGED <<otherVars, numRecords, renderedMapReady, subscribed, loops>>

\* The ref callback of the MapContainer receives the map.
RefAttach ==
    /\ phase # "unmounted"
    /\ ~mapRef
    /\ Install(LET s == [Cur EXCEPT !.mapRef = TRUE]
               IN  IF ~renderedMapReady THEN setMapReady(s, TRUE) ELSE s)
    /\ UNCHANGED <<otherVars, numRecords, whenReadyDone, renderedMapReady, subscribed, loops>>

\* The commit of the render that sees the new mapReady: addCollection has
\* changed, so the load effect is cleaned up and run again; then the
\* subscription effect and the render effect run.
Commit ==
    /\ phase = "mounted"
    /\ mapReady # renderedMapReady
    /\ renderedMapReady' = mapReady
    /\ loops' = Append(MarkCleaned(loops), NewLoop(mapReady))
    /\ subscribed' = (mapReady /\ mapRef)
    /\ Install(LET s == LoadEffect(Cleanup(Cur))
               IN  IF mapReady THEN renderClusters(s) ELSE s)
    /\ UNCHANGED <<otherVars, numRecords, whenReadyDone>>

\* Teardown of the view.
Unmount ==
    /\ phase = "mounted"
    /\ loops' = MarkCleaned(loops)
    /\ subscribed' = FALSE
    /\ Install([Cleanup(Cur) EXCEPT !.phase = "unmounted", !.mapRef = FALSE])
    /\ UNCHANGED <<otherVars, numRecords, whenReadyDone, renderedMapReady>>

\* The fetch of loop l resolves with a success status.
FetchOk(l) ==
    /\ loops[l].pc = "fetch"
    /\ loops' = [loops EXCEPT ![l].pc = "json"]
    /\ UNCHANGED <<otherVars, numRecords, phase, mapRef, whenReadyDone, clusterLayerRef, overlays,
                   superclusterRef, instances, featureMapRef, pointsRef, nextFeatureIdRef,
                   boundsRef, cancelledRef, shouldFitBoundsRef, mapReady, renderedMapReady,
                   totalFetched, hasMore, isLoading, view, moveEndPending, subscribed,
                   session, sessionCalls, sessionFailed, toasts, fits, lastQuery,
                   lastClick>>

\* The fetch of loop l resolves with a non-success status (the endpoint's
\* 500): load() throws, notifies and ends.
FetchFailed(l) ==
    /\ loops[l].pc = "fetch"
    /\ loops' = [loops EXCEPT ![l].pc = "done"]
    /\ Install(OnFetchError(Cur))
    /\ UNCHANGED <<otherVars, numRecords, whenReadyDone, renderedMapReady, subscribed>>

\* response.json() of loop l resolves: the page is indexed and counted, then
\* the loop either ends (no nextCursor) or starts its delay.
BodyRead(l) ==
    /\ loops[l].pc = "json"
    /\ LET payload == GET(numRecords, FETCH_LIMIT, loops[l].cursor)
           s1 == addCollection(Cur, payload.features, loops[l].ready)
           s2 == setTotalFetched(s1, s1.totalFetched + Len(payload.features))
       IN  IF Len(payload.nextCursor) = 0
           THEN /\ Install(OnLoopExit(setHasMore(s2, FALSE)))
                /\ loops' = [loops EXCEPT ![l].pc = "done"]
           ELSE /\ Install(s2)
                /\ loops' = [loops EXCEPT ![l].pc = "delay",
                                          ![l].cursor = payload.nextCursor]
    /\ UNCHANGED <<otherVars, numRecords, whenReadyDone, renderedMapReady, subscribed>>

\* The delay of loop l ends: the while tests cancelledRef and either leaves
\* or issues the next fetch.
DelayDone(l) ==
    /\ loops[l].pc = "delay"
    /\ IF cancelledRef
       THEN /\ Install(OnLoopExit(Cur))
            /\ loops' = [loops EXCEPT ![l].pc = "done"]
       ELSE /\ Install([Cur EXCEPT !.sessionCalls = sessionCalls + 1])
            /\ loops' = [loops EXCEPT ![l].pc = "fetch",
                                      ![l].calls = loops[l].calls + 1]
    /\ UNCHANGED <<otherVars, numRecords, whenReadyDone, renderedMapReady, subscribed>>

\* The user pans or zooms the map to the view v.
Pan(v) ==
    /\ phase = "mounted"
    /\ whenReadyDone \/ mapRef
    /\ v # view
    /\ Install([Cur EXCEPT !.view = v, !.moveEndPending = TRUE])
    /\ UNCHANGED <<otherVars, numRecords, whenReadyDone, renderedMapReady, subscribed, loops>>

\* The map fires moveend / zoomend; handleMove runs when it is registered.
HandleMove ==
    /\ phase = "mounted"
    /\ moveEndPending
    /\ Install(LET s == [Cur EXCEPT !.moveEndPending = FALSE]
               IN  IF subscribed THEN renderClusters(s) ELSE s)
    /\ UNCHANGED <<otherVars, numRecords, whenReadyDone, renderedMapReady, subscribed, loops>>

\* The user clicks the i-th drawn overlay, a cluster marker.
ClickCluster(i) ==
    /\ phase = "mounted"
    /\ mapRef
    /\ i \in 1 .. Len(overlays)
    /\ overlays[i].cluster
    /\ Install(ExpandCluster(Cur, overlays[i]))
    /\ UNCHANGED <<otherVars, numRecords, whenReadyDone, renderedMapReady, subscribed, loops>>

Next ==
    \/ Mount
    \/ WhenReady
    \/ RefAttach
    \/ Commit
    \/ Unmount
    \/ \E l \in DOMAIN loops : FetchOk(l)
    \/ \E l \in DOMAIN loops : FetchFailed(l)
    \/ \E l \in DOMAIN loops : BodyRead(l)
    \/ \E l \in DOMAIN loops : DelayDone(l)
    \/ \E v \in Views : Pan(v)
    \/ HandleMove
    \/ \E i \in 1 .. Len(overlays) : ClickCluster(i)

Spec == Init /\ [][Next]_vars

\* ------------------------------- the load without error and teardown
\* The clustered view over a table that answers every request and a view
\* that is never torn down: Next without FetchFailed and Unmount.
LiveNext ==
    \/ Mount
    \/ WhenReady
    \/ RefAttach
    \/ Commit
    \/ \E l \in DOMAIN loops : FetchOk(l)
    \/ \E l \in DOMAIN loops : BodyRead(l)
    \/ \E l \in DOMAIN loops : DelayDone(l)
    \/ \E v \in Views : Pan(v)
    \/ HandleMove
    \/ \E i \in 1 .. Len(overlays) : ClickCluster(i)

\* The scheduling the load relies on: React runs the effects of the first
\* commit and commits the render of a changed mapReady; the event loop runs
\* the continuation of every settled fetch, of every settled response.json()
\* and of every expired delay.  Nothing is assumed of the map's readiness
\* or of the user.  For Commit and BodyRead the weak fairness condition is
\* written out, with the guard of the action for ENABLED <<A>>_vars.
LiveFairness ==
    /\ WF_vars(Mount)
    /\ \/ []<>(phase # "mounted" \/ mapReady = renderedMapReady)
       \/ []<><<Commit>>_vars
    /\ \A l \in 1 .. 2 :
          /\ WF_vars(l \in DOMAIN loops /\ FetchOk(l))
          /\ \/ []<>(l \notin DOMAIN loops \/ loops[l].pc # "json")
             \/ []<><<l \in DOMAIN loops /\ BodyRead(l)>>_vars
          /\ WF_vars(l \in DOMAIN loops /\ DelayDone(l))

LiveSpec == Init /\ [][LiveNext]_vars /\ LiveFairness

\* ------------------------------------------- the endpoint and its reader
\* Variant of OnRead that rejects on a read error without closing the cursor.
OnReadRejectNow(s, err) ==
    IF err THEN [s EXCEPT !.readErr = TRUE, !.settled = "rejected", !.pc = "release"]
    ELSE [s EXCEPT !.readErr = FALSE, !.pc = "close"]

\* The callback of cursorQuery.read: on either outcome it calls
\* cursorQuery.close and leaves the promise pending.
OnRead(s, err) == [s EXCEPT !.readErr = err, !.pc = "close"]

\* The callback of cursorQuery.close: the close has completed (with or
\* without an error) and the promise settles: reject(err) after a read error,
\* reject(closeErr) after a close error, resolve(rows) otherwise.
OnClose(s, closeErr) ==
    [s EXCEPT !.cursor = "closed",
              !.closeErr = closeErr,
              !.settled = IF s.readErr \/ closeErr THEN "rejected" ELSE "resolved",
              !.pc = "release"]

\* Variant of ReleaseClient that releases the client only when the callback
\* resolved.
ReleaseClientOnSuccess(s) ==
    IF s.settled = "resolved"
    THEN [s EXCEPT !.held = FALSE, !.released = s.released + 1, !.pc = "respond"]
    ELSE [s EXCEPT !.pc = "respond"]

\* finally { client.release() } of withClient.
ReleaseClient(s) ==
    [s EXCEPT !.held = FALSE, !.released = s.released + 1, !.pc = "respond"]

\* The reader issues a request: the first without a cursor and with any
\* limit parameter, each later one with the nextCursor of the page before and
\* the same limit parameter.  GET computes limit and awaits pool.connect().
\* A reader needs at most numRecords + 1 requests.
Request(lp) ==
    /\ srv.pc = "idle"
    /\ ~srv.finished
    /\ srv.requests = 0 \/ lp = srv.limitParam
    /\ srv.requests <= numRecords
    /\ srv' = [srv EXCEPT !.pc = "connect",
                          !.limitParam = lp,
                          !.limit = ClampLimit(lp),
                          !.requests = srv.requests + 1,
                          !.cursor = "none",
                          !.readErr = FALSE,
                          !.closeErr = FALSE,
                          !.settled = "pending"]
    /\ UNCHANGED <<numRecords, viewVars, rawVars>>

\* pool.connect() rejects: no client is acquired and fn is never called.
ConnectFailed ==
    /\ srv.pc = "connect"
    /\ srv' = [srv EXCEPT !.pc = "respond"]
    /\ UNCHANGED <<numRecords, viewVars, rawVars>>

\* pool.connect() resolves: withClient calls runQuery, which opens the
\* cursor and issues the read.
Connected ==
    /\ srv.pc = "connect"
    /\ srv' = [srv EXCEPT !.pc = "read", !.held = TRUE,
                          !.acquired = srv.acquired + 1, !.cursor = "open"]
    /\ UNCHANGED <<numRecords, viewVars, rawVars>>

\* The read callback runs, with an error or with the rows.
Read(err) ==
    /\ srv.pc = "read"
    /\ srv' = OnRead(srv, err)
    /\ UNCHANGED <<numRecords, viewVars, rawVars>>

\* The close callback runs, with or without an error.
Close(closeErr) ==
    /\ srv.pc = "close"
    /\ srv' = OnClose(srv, closeErr)
    /\ UNCHANGED <<numRecords, viewVars, rawVars>>

\* The finally of withClient.
Release ==
    /\ srv.pc = "release"
    /\ srv' = ReleaseClient(srv)
    /\ UNCHANGED <<numRecords, viewVars, rawVars>>

\* GET answers: the page and its nextCursor when withClient resolved, the
\* 500 otherwise.  The reader keeps the ids of the page and follows
\* nextCursor; it stops on a response without nextCursor and on an error.
Respond ==
    /\ srv.pc = "respond"
    /\ IF srv.settled = "resolved"
       THEN LET payload == GET(numRecords, srv.limit, srv.cursorParam)
                ids == [k \in 1 .. Len(payload.features) |-> payload.features[k].id]
            IN  srv' = [srv EXCEPT !.pc = "idle",
                                  !.lastPage = ids,
                                  !.lastCursor = srv.cursorParam,
                                  !.received = srv.received \o ids,
                                  !.cursorParam = payload.nextCursor,
                                  !.finished = (Len(payload.nextCursor) = 0)]
       ELSE srv' = [srv EXCEPT !.pc = "idle", !.failed = TRUE, !.finished = TRUE]
    /\ UNCHANGED <<numRecords, viewVars, rawVars>>

ServerNext ==
    \/ \E lp \in LimitParams : Request(lp)
    \/ ConnectFailed
    \/ Connected
    \/ \E err \in BOOLEAN : Read(err)
    \/ \E closeErr \in BOOLEAN : Close(closeErr)
    \/ Release
    \/ Respond

ServerSpec == Init /\ [][ServerNext]_vars

\* --------------------------- the raw-vector view (src/unnamed/part_000)
\* The refs and state of the raw-vector MapView as one record.  It has the
\* refs mapRef, cancelledRef and shouldFitBoundsRef and the state
\* totalFetched, hasMore and isLoading under the names of the clustered view.
RawCur ==
    [phase |-> phase, mapRef |-> mapRef, cancelledRef |-> cancelledRef,
     shouldFitBoundsRef |-> shouldFitBoundsRef, totalFetched |-> totalFetched,
     hasMore |-> hasMore, isLoading |-> isLoading, view |-> view,
     toasts |-> toasts, fits |-> fits, queueRef |-> queueRef,
     geoJsonLayerRef |-> geoJsonLayerRef, layerData |-> layerData,
     flushed |-> flushed]

RawInstall(s) ==
    /\ phase' = s.phase
    /\ mapRef' = s.mapRef
    /\ cancelledRef' = s.cancelledRef
    /\ shouldFitBoundsRef' = s.shouldFitBoundsRef
    /\ totalFetched' = s.totalFetched
    /\ hasMore' = s.hasMore
    /\ isLoading' = s.isLoading
    /\ view' = s.view
    /\ toasts' = s.toasts
    /\ fits' = s.fits
    /\ queueRef' = s.queueRef
    /\ geoJsonLayerRef' = s.geoJsonLayerRef
    /\ layerData' = s.layerData
    /\ flushed' = s.flushed

\* What the raw-vector view does not have or does not touch.
rawFixed == <<numRecords, srv, whenReadyDone, clusterLayerRef, overlays,
              superclusterRef, instances, featureMapRef, pointsRef,
              nextFeatureIdRef, boundsRef, mapReady, renderedMapReady,
              moveEndPending, subscribed, session, sessionCalls, sessionFailed,
              lastQuery, lastClick>>

\* ensureLayer returns the layer exactly when the map is attached, and
\* creates it on first use.
ensureLayer(s) == IF ~s.mapRef THEN s ELSE [s EXCEPT !.geoJsonLayerRef = TRUE]

\* The positions covered by the geometries added to the layer.
LayerCoords(data) ==
    UNION {UNION {IF data[b][k].geometry.present THEN data[b][k].geometry.coords
                  ELSE {} : k \in 1 .. Len(data[b])} : b \in 1 .. Len(data)}

\* layer.addData(collection) followed by the fit on the first valid bounds.
addData(s, collection) ==
    LET s1 == [s EXCEPT !.layerData = Append(s.layerData, collection)]
        coords == LayerCoords(s1.layerData)
    IN  IF s1.shouldFitBoundsRef /\ s1.mapRef /\ coords # {}
        THEN [s1 EXCEPT !.view = FitView(<<SetMin(coords), SetMax(coords)>>),
                        !.fits = s1.fits + 1,
                        !.shouldFitBoundsRef = FALSE]
        ELSE s1

\* The while of applyQueue: the queued batches go to the layer, oldest first.
RECURSIVE DrainQueue(_)
DrainQueue(s) ==
    IF Len(s.queueRef) = 0 THEN s
    ELSE DrainQueue(addData([s EXCEPT !.queueRef = Tail(s.queueRef),
                                      !.flushed = s.flushed + 1],
                            Head(s.queueRef)))

\* Variant of applyQueue that leaves the queue as it is.
applyQueueKeep(s) == ensureLayer(s)

applyQueue(s) ==
    LET s1 == ensureLayer(s)
    IN  IF ~s1.mapRef THEN s1 ELSE DrainQueue(s1)

\* addCollection of the raw-vector view: the batch is queued while there is
\* no layer, added to the layer otherwise.
rawAddCollection(s, collection) ==
    LET s1 == ensureLayer(s)
    IN  IF ~s1.mapRef THEN [s1 EXCEPT !.queueRef = Append(s1.queueRef, collection)]
        ELSE addData(s1, collection)

\* finally of load(): the flush and setIsLoading(false) unless cancelled.
RawOnLoopExit(s) ==
    IF ~s.cancelledRef THEN setIsLoading(applyQueue(s), FALSE) ELSE s

\* The load effect runs once (its dependencies never change): the resets,
\* setIsLoading(true) and the first fetch.
RawMount ==
    /\ phase = "initial"
    /\ RawInstall(setIsLoading([RawCur EXCEPT !.phase = "mounted",
                                              !.cancelledRef = FALSE,
                                              !.shouldFitBoundsRef = TRUE], TRUE))
    /\ loops' = <<NewLoop(FALSE)>>
    /\ UNCHANGED rawFixed

\* The ref callback receives the map: ensureLayer(); applyQueue().
RawRefAttach ==
    /\ phase # "unmounted"
    /\ ~mapRef
    /\ RawInstall(applyQueue(ensureLayer([RawCur EXCEPT !.mapRef = TRUE])))
    /\ UNCHANGED <<rawFixed, loops>>

\* Teardown: the cleanup sets the flag and the ref callback receives null.
RawUnmount ==
    /\ phase = "mounted"
    /\ RawInstall(applyQueue(ensureLayer(
           [RawCur EXCEPT !.cancelledRef = TRUE, !.phase = "unmounted",
                          !.mapRef = FALSE])))
    /\ loops' = MarkCleaned(loops)
    /\ UNCHANGED rawFixed

\* The fetch of fetchChunk resolves with a success status.
RawFetchOk(l) ==
    /\ loops[l].pc = "fetch"
    /\ loops' = [loops EXCEPT ![l].pc = "json"]
    /\ RawInstall(RawCur)
    /\ UNCHANGED rawFixed

\* The fetch resolves with a non-success status: fetchChunk throws, load()
\* notifies and runs its finally.
RawFetchFailed(l) ==
    /\ loops[l].pc = "fetch"
    /\ loops' = [loops EXCEPT ![l].pc = "done"]
    /\ RawInstall(RawOnLoopExit(
           IF phase = "mounted" THEN [RawCur EXCEPT !.toasts = toasts + 1]
           ELSE RawCur))
    /\ UNCHANGED rawFixed

\* response.json() resolves: the rest of fetchChunk, then applyQueue() and
\* either the break and the finally or the start of the delay.
RawBodyRead(l) ==
    /\ loops[l].pc = "json"
    /\ LET payload == GET(numRecords, FETCH_LIMIT, loops[l].cursor)
           s1 == rawAddCollection(RawCur, payload.features)
           s2 == setTotalFetched(s1, s1.totalFetched + Len(payload.features))
           s3 == IF Len(payload.nextCursor) = 0 THEN setHasMore(s2, FALSE) ELSE s2
           s4 == applyQueue(s3)
       IN  IF Len(payload.nextCursor) = 0
           THEN /\ RawInstall(RawOnLoopExit(s4))
                /\ loops' = [loops EXCEPT ![l].pc = "done"]
           ELSE /\ RawInstall(s4)
                /\ loops' = [loops EXCEPT ![l].pc = "delay",
                                          ![l].cursor = payload.nextCursor]
    /\ UNCHANGED rawFixed

\* The delay ends: the while tests cancelledRef and either leaves through
\* the finally or issues the next fetch.
RawDelayDone(l) ==
    /\ loops[l].pc = "delay"
    /\ IF cancelledRef
       THEN /\ RawInstall(RawOnLoopExit(RawCur))
            /\ loops' = [loops EXCEPT ![l].pc = "done"]
       ELSE /\ RawInstall(RawCur)
            /\ loops' = [loops EXCEPT ![l].pc = "fetch",
                                      ![l].calls = loops[l].calls + 1]
    /\ UNCHANGED rawFixed

RawNext ==
    \/ RawMount
    \/ RawRefAttach
    \/ RawUnmount
    \/ \E l \in DOMAIN loops : RawFetchOk(l)
    \/ \E l \in DOMAIN loops : RawFetchFailed(l)
    \/ \E l \in DOMAIN loops : RawBodyRead(l)
    \/ \E l \in DOMAIN loops : RawDelayDone(l)

RawSpec == Init /\ [][RawNext]_vars

\* --------------------------------------------------------------- properties
\* Number of requests one load() needs to drain a table of n rows: the
\* endpoint attaches nextCursor to every non-empty page, so the stream ends
\* with an empty page.
PageCount(n) == (n + FETCH_LIMIT - 1) \div FETCH_LIMIT + 1

\* load() of the current session has ended without a failed fetch, the view
\* still mounted.
SessionCompleted ==
    /\ loops # <<>>
    /\ phase = "mounted"
    /\ ~sessionFailed
    /\ loops[Len(loops)].pc = "done"

\* C1: when a session has run to completion over the endpoint's page
\* sequence, totalFetched is the sum of the pages' feature counts (the
\* number of rows), hasMore is false and the session has issued one request
\* per page, whenever the map became ready.
C1_EndToEndTotals ==
    SessionCompleted =>
        /\ totalFetched = numRecords
        /\ ~hasMore
        /\ sessionCalls = PageCount(numRecords)

ActiveLoops == {l \in DOMAIN loops : loops[l].pc # "done"}
InFlight == {l \in DOMAIN loops : loops[l].pc \in {"fetch", "json"}}

\* C2: at most one load loop is alive at any moment, and at most one page
\* fetch is in flight.
C2_OneActiveLoop ==
    /\ Cardinality(ActiveLoops) <= 1
    /\ Cardinality(InFlight) <= 1

\* C3: while the cancellation flag is set, a step of a loop whose effect
\* cleanup has run changes neither the feature table, the points buffer,
\* the cluster index nor the progress counters.
C3_NoWriteAfterCancel ==
    [][\A l \in DOMAIN loops :
          (cancelledRef /\ loops[l].cleaned /\ loops'[l] # loops[l]) =>
              UNCHANGED <<featureMapRef, pointsRef, nextFeatureIdRef, instances,
                          superclusterRef, totalFetched, hasMore>>]_vars

\* C4: a loop whose effect cleanup has run issues no further network call.
C4_NoFetchAfterCancel ==
    [][\A l \in DOMAIN loops :
          loops[l].cleaned => loops'[l].calls = loops[l].calls]_vars

\* C5: once a fetch of the session has failed, the session issues no further
\* fetch and the error notification has been shown exactly once.
C5_HaltOnError ==
    [][(sessionFailed /\ session' = session) =>
          /\ sessionCalls' = sessionCalls
          /\ toasts' <= 1
          /\ (phase' = "mounted" => toasts' = 1)]_vars

\* C6: the step in which a loop's fetch fails (the loop goes from awaiting
\* the fetch to halted) leaves the feature table, the points buffer, the
\* cluster index, the drawn overlays and totalFetched as they were.
C6_FailureKeepsData ==
    [][\A l \in DOMAIN loops :
          (loops[l].pc = "fetch" /\ loops'[l].pc = "done") =>
              UNCHANGED <<featureMapRef, pointsRef, nextFeatureIdRef, boundsRef,
                          instances, superclusterRef, overlays, totalFetched>>]_vars

\* Every loop of the second session has ended, none by reaching the end of
\* the stream: the last one failed after data had been indexed, counted and
\* drawn.
C6_Witness ==
    /\ phase = "mounted"
    /\ session = 2
    /\ sessionFailed
    /\ \A l \in DOMAIN loops : loops[l].pc = "done"
    /\ hasMore
    /\ Len(pointsRef) > 0
    /\ totalFetched > 0
    /\ overlays # <<>>

\* C7: within a session fitBounds is called at most once, the count never
\* goes back, and a render pass that draws an overlay (so the accumulated
\* bounds are valid) leaves the fit applied.
C7_FitOnce ==
    [][/\ fits' <= 1
       /\ (session' = session => fits' >= fits)
       /\ ((overlays' # overlays /\ overlays' # <<>>) => fits' = 1)
       /\ (fits' = 1 <=> ~shouldFitBoundsRef')]_vars

\* The fit has been applied and more than one batch has been rendered since.
C7_Witness ==
    /\ fits = 1
    /\ session = 2
    /\ totalFetched > FETCH_LIMIT
    /\ Len(pointsRef) >= 2
    /\ overlays # <<>>

\* C8: a click on a cluster marker whose cluster id the marker's index no
\* longer holds leaves the viewport and the drawn overlays unchanged.
C8_StaleClickKeepsView ==
    [][\A i \in 1 .. Len(overlays) :
          (/\ ClickCluster(i)
           /\ ClusterLookup(instances[overlays[i].inst], overlays[i].cluster_id) = {}) =>
              UNCHANGED <<view, moveEndPending, overlays>>]_vars

\* A marker with a stale cluster id is drawn and has been clicked.
C8_Witness ==
    /\ lastClick = "failed"
    /\ Len(pointsRef) > 0
    /\ \E i \in 1 .. Len(overlays) :
          /\ overlays[i].cluster
          /\ ClusterLookup(instances[overlays[i].inst], overlays[i].cluster_id) = {}

\* Overlay o was drawn for the result entry c.
DrawnFor(o, c) ==
    /\ o.cluster = c.cluster
    /\ o.cluster_id = c.cluster_id
    /\ o.id = c.id
    /\ o.pos = c.pos

\* C9: the drawn overlays are those of the latest render pass only: each
\* overlay belongs to a distinct entry of that pass's query result.
C9_NoOverlayAccumulation ==
    /\ Len(overlays) <= Len(lastQuery)
    /\ \E f \in [1 .. Len(overlays) -> 1 .. Len(lastQuery)] :
          /\ \A i, j \in 1 .. Len(overlays) : i # j => f[i] # f[j]
          /\ \A i \in 1 .. Len(overlays) : DrawnFor(overlays[i], lastQuery[f[i]])

\* Several render passes have run and the last one drew two overlays.
C9_Witness ==
    /\ Len(overlays) = 2
    /\ session = 2
    /\ fits = 1
    /\ ~moveEndPending
    /\ totalFetched > FETCH_LIMIT

\* C10: every pointId held by the cluster index is a key of the feature
\* table and maps to a feature whose geometry yields a representative point.
C10_IndexedIdsResolve ==
    superclusterRef # 0 =>
        \A i \in 1 .. Len(instances[superclusterRef]) :
            LET id == instances[superclusterRef][i].id
            IN  /\ id \in DOMAIN featureMapRef
                /\ geometryToLatLng(featureMapRef[id].geometry).ok

\* The index of a second session holds points.
C10_Witness ==
    /\ session = 2
    /\ superclusterRef # 0
    /\ Len(instances[superclusterRef]) >= 2

\* Number of points represented by the answer to a query.
RECURSIVE SumCounts(_)
SumCounts(q) == IF Len(q) = 0 THEN 0 ELSE q[1].point_count + SumCounts(Tail(q))

\* The full-world query at zoom 0: the single cell of zoom 0.
WorldCount(pts) == SumCounts(CellsToSeq(pts, 0, {0}))

\* C11: the points loaded in the current cluster index are exactly the
\* points buffer, in the same order and each once, and the full-world query
\* at zoom 0 represents as many points as the buffer holds; without an index
\* the buffer is empty.
C11_IndexEqualsBuffer ==
    /\ superclusterRef = 0 => pointsRef = <<>>
    /\ superclusterRef # 0 =>
          /\ instances[superclusterRef] = pointsRef
          /\ WorldCount(instances[superclusterRef]) = Len(pointsRef)

\* The index was rebuilt over a buffer of three points and rendered.
C11_Witness ==
    /\ superclusterRef # 0
    /\ Len(pointsRef) >= 3
    /\ Len(overlays) >= 1
    /\ WorldCount(instances[superclusterRef]) = 3

\* C12: the pointIds of the points buffer are strictly increasing along the
\* buffer (hence pairwise distinct), each is a key of the feature table, and
\* the buffer holds no more points than the table has entries; also while
\* the cancellation flag is set and after the teardown.
C12_PointIdsDistinct ==
    /\ \A i, j \in 1 .. Len(pointsRef) :
          i < j => pointsRef[i].id < pointsRef[j].id
    /\ \A i \in 1 .. Len(pointsRef) : pointsRef[i].id \in DOMAIN featureMapRef
    /\ Len(pointsRef) <= Cardinality(DOMAIN featureMapRef)

\* Points were added after the teardown had set the cancellation flag.
C12_Witness ==
    /\ phase = "unmounted"
    /\ cancelledRef
    /\ Len(pointsRef) >= 2
    /\ nextFeatureIdRef = Len(pointsRef) + 1

\* The features of a page that have a representative point.
Indexable(features) ==
    SelectSeq(features, LAMBDA f : geometryToLatLng(f.geometry).ok)

\* C15: a step that rebuilds the index over a longer points buffer while the
\* map is attached and the ready view is committed also runs a render pass
\* over the rebuilt index, so the next fetch starts after that render pass.
C15_RenderBeforeNextFetch ==
    [][(phase = "mounted" /\ mapRef /\ renderedMapReady
          /\ Len(pointsRef') > Len(pointsRef)) =>
              lastQuery' = getClusters(pointsRef', view)]_vars

\* C16: the step in which a loop has read a page gives a pointId, a table
\* entry and a point to exactly the features of the page that have a
\* representative point, in page order, and to no other; it raises no error
\* and the loop goes on to its delay (or ends on the empty page).  A page
\* without any such feature leaves the table, the buffer, the counter, the
\* bounds and the contents of the index as they were.
C16_SkipDegenerate ==
    [][\A l \in DOMAIN loops :
          (loops[l].pc = "json" /\ loops'[l].pc # "json") =>
              LET payload == GET(numRecords, FETCH_LIMIT, loops[l].cursor)
                  good == Indexable(payload.features)
                  n == Len(pointsRef)
              IN  /\ Len(pointsRef') = n + Len(good)
                  /\ SubSeq(pointsRef', 1, n) = pointsRef
                  /\ \A k \in 1 .. Len(good) :
                        /\ pointsRef'[n + k].id = nextFeatureIdRef + k - 1
                        /\ pointsRef'[n + k].id \in DOMAIN featureMapRef'
                        /\ featureMapRef'[pointsRef'[n + k].id] = good[k]
                  /\ DOMAIN featureMapRef' =
                        DOMAIN featureMapRef
                          \cup {nextFeatureIdRef + k - 1 : k \in 1 .. Len(good)}
                  /\ nextFeatureIdRef' = nextFeatureIdRef + Len(good)
                  /\ superclusterRef' # 0 =>
                        instances'[superclusterRef'] = pointsRef'
                  /\ toasts' = toasts
                  /\ sessionFailed' = sessionFailed
                  /\ loops'[l].pc =
                        IF Len(payload.features) = 0 THEN "done" ELSE "delay"
                  /\ Len(good) = 0 =>
                        UNCHANGED <<featureMapRef, pointsRef, nextFeatureIdRef,
                                    boundsRef>>]_vars

\* A loop has read the page of rows 1 and 2, skipped row 1, indexed row 2 and
\* waits to fetch the next page.
C16_Witness ==
    /\ numRecords >= 2
    /\ totalFetched = 2
    /\ Len(pointsRef) = 1
    /\ featureMapRef[pointsRef[1].id].id = 2
    /\ \E l \in DOMAIN loops : loops[l].pc = "delay"

\* C18: a step that starts a load session leaves the feature table, the
\* points buffer, the index and the bounds empty, the pointId counter at 1,
\* totalFetched at 0 and hasMore true; every other step keeps the entries of
\* the feature table, keeps the points buffer as a prefix and does not lower
\* totalFetched.
C18_ResetThenGrow ==
    [][IF session' # session
       THEN /\ featureMapRef' = <<>>
            /\ pointsRef' = <<>>
            /\ superclusterRef' = 0 \/ instances'[superclusterRef'] = <<>>
            /\ boundsRef' = <<>>
            /\ nextFeatureIdRef' = 1
            /\ totalFetched' = 0
            /\ hasMore'
       ELSE /\ \A k \in DOMAIN featureMapRef :
                  k \in DOMAIN featureMapRef' /\ featureMapRef'[k] = featureMapRef[k]
            /\ Len(pointsRef') >= Len(pointsRef)
            /\ SubSeq(pointsRef', 1, Len(pointsRef)) = pointsRef
            /\ totalFetched' >= totalFetched]_vars

\* The second session started over the loaded data of the first and has
\* loaded data of its own.
C18_Witness ==
    /\ session = 2
    /\ Len(instances) >= 2
    /\ Len(instances[1]) >= 1
    /\ Len(pointsRef) >= 2
    /\ totalFetched >= 3

\* C20: no two entries of the feature table, and no two points of the
\* buffer, stand for the same upstream record.
C20_OnePointPerRecord ==
    /\ \A i, j \in DOMAIN featureMapRef :
          i # j => featureMapRef[i].id # featureMapRef[j].id
    /\ \A i, j \in 1 .. Len(pointsRef) :
          i # j => featureMapRef[pointsRef[i].id].id # featureMapRef[pointsRef[j].id].id

\* C13: for a limit parameter that is absent or a number L, the effective
\* page limit is DEFAULT_LIMIT when absent and min(max(L, 1), MAX_LIMIT)
\* otherwise, and lies within 1 .. MAX_LIMIT.
C13_EffectiveLimit ==
    (srv.requests > 0 /\ (~srv.limitParam.given \/ srv.limitParam.numeric)) =>
        /\ srv.limit \in 1 .. MAX_LIMIT
        /\ srv.limit = IF ~srv.limitParam.given THEN DEFAULT_LIMIT
                       ELSE Min(Max(srv.limitParam.value, 1), MAX_LIMIT)

\* C14: for a reader that starts without a cursor and follows nextCursor,
\* the ids received so far are 1, 2, ... in ascending order without a
\* repetition; the ids of a page are greater than the id decoded from the
\* cursor of its request; the nextCursor of a non-empty page decodes to the
\* last id of the page and survives encoding and decoding; a response is
\* without nextCursor only when no row lies beyond the request's cursor; and
\* a reader that finished without an error has received every row once.
C14_PagesCoverTable ==
    /\ \A i \in 1 .. Len(srv.received) : srv.received[i] = i
    /\ \A k \in 1 .. Len(srv.lastPage) :
          Len(srv.lastCursor) > 0 => srv.lastPage[k] > decodeCursor(srv.lastCursor)
    /\ Len(srv.lastPage) > 0 =>
          /\ Len(srv.cursorParam) > 0
          /\ decodeCursor(srv.cursorParam) = srv.lastPage[Len(srv.lastPage)]
          /\ encodeCursor(decodeCursor(srv.cursorParam)) = srv.cursorParam
    /\ \A id \in 1 .. numRecords : decodeCursor(encodeCursor(id)) = id
    /\ (srv.finished /\ ~srv.failed) =>
          /\ srv.lastPage = <<>>
          /\ Len(srv.received) = numRecords

\* A reader with an effective limit of 1 has read a table of at least three
\* rows to its end.
C14_Witness ==
    /\ srv.finished
    /\ ~srv.failed
    /\ srv.limit = 1
    /\ numRecords >= 3
    /\ Len(srv.received) = numRecords
    /\ srv.requests = numRecords + 1

\* C19: the handler holds a client exactly between an acquisition and its
\* release, so every acquired client is released once and none twice; when
\* withClient has settled every acquired client has been released; the
\* promise of runQuery settles only after the cursor's close has completed;
\* and a cursor is open only while the client is held.
C19_ClientReleasedCursorClosed ==
    /\ srv.released <= srv.acquired
    /\ srv.held <=> (srv.acquired = srv.released + 1)
    /\ ~srv.held => srv.acquired = srv.released
    /\ srv.pc \in {"respond", "idle"} => ~srv.held
    /\ srv.settled # "pending" => srv.cursor = "closed"
    /\ srv.cursor = "open" => srv.held

\* A second request ended with a read error: its cursor was closed, its
\* promise rejected and its client released.
C19_Witness ==
    /\ srv.pc = "respond"
    /\ srv.readErr
    /\ srv.settled = "rejected"
    /\ srv.cursor = "closed"
    /\ srv.acquired = 2
    /\ srv.released = 2

\* The load() of the raw-vector view has stopped.
RawStopped == loops # <<>> /\ \A l \in DOMAIN loops : loops[l].pc = "done"

C21_ProgressAgrees ==
    /\ [](ActiveLoops # {} => (isLoading /\ hasMore))
    /\ [][(~hasMore /\ session' = session) =>
             /\ sessionCalls' = sessionCalls
             /\ UNCHANGED <<totalFetched, featureMapRef, pointsRef>>]_vars

\* C22: without fetch error and teardown, under fair scheduling, the load
\* comes to an end: from some point on every loop has ended, hasMore is
\* false and isLoading is false.
C22_LoadTerminates ==
    <>[](/\ loops # <<>>
         /\ \A l \in DOMAIN loops : loops[l].pc = "done"
         /\ ~hasMore
         /\ ~isLoading)

\* The session started by the ready map has read the largest table to its
\* empty last page and the indicators are off.
C22_Witness ==
    /\ session = 2
    /\ numRecords = MaxRecords
    /\ \A l \in DOMAIN loops : loops[l].pc = "done"
    /\ loops[Len(loops)].calls = PageCount(numRecords)
    /\ totalFetched >= numRecords
    /\ ~hasMore
    /\ ~isLoading

====
